---------------------------- MODULE Spec2Model ----------------------------
(***************************************************************************)
(* A model of the resilience package (pkg/resilience): the Retry executor  *)
(* with its BackOff strategies, the CircuitBreaker executor built on the   *)
(* sony/gobreaker state machine, the Timeout executor and the              *)
(* ResilienceKit that builds one of each lazily.                           *)
(*                                                                         *)
(* Each component has its own specification (SpecRetry, SpecBackOff,       *)
(* SpecCB, SpecTimeout, SpecKit); the variables of the other components    *)
(* are held constant.                                                      *)
(***************************************************************************)
EXTENDS Integers, Sequences, FiniteSets

(***************************************************************************)
(* Bounds of the model.                                                    *)
(***************************************************************************)
\* Largest RetryOptions.MaxRetries explored (MaxRetries ranges over 0..MaxMaxRetries).
MaxMaxRetries == 3
\* Number of time.Duration units in one second.  Go's time.Second is 10^9
\* (nanoseconds); the model counts in a coarser unit so that every product
\* stays inside TLC's integers.
Second == 10
\* Largest argument given to BackOff.Next in SpecBackOff.
MaxAttempt == 4
\* Backoff durations are drawn in half seconds: 0 .. MaxHalfSeconds halves.
MaxHalfSeconds == 4
\* Largest CircuitBreakerOptions.WaitOpen explored, in minutes (0..MaxWaitOpen).
MaxWaitOpen == 2
\* FailureRateThreshold ranges over the fractions k / ThresholdDen of [0, 1],
\* ThresholdDen being 2 * ThresholdHalves.
ThresholdHalves == 1
\* The clock of the circuit breaker stops at MaxTime minutes.
MaxTime == 6
\* Calls admitted in one generation of the breaker's counters.
MaxCallsPerGeneration == 3
\* Largest TimeoutOptions.TimeLimit explored, in units of 10 ms (1..MaxTimeLimit).
MaxTimeLimit == 2
\* Longest time the work of a Timeout.Execute runs, in units of 10 ms.
MaxWorkTime == 5

(***************************************************************************)
(* Errors and results of a unit of work.                                   *)
(***************************************************************************)
\* The nil error.
Nil == "nil"
\* context.Canceled itself, an error wrapping it (fmt.Errorf("...: %w")),
\* and an ordinary failure of the work.
Canceled == "context.Canceled"
WrappedCanceled == "wrapped(context.Canceled)"
ErrTransient == "ErrTransient"
Errors == {ErrTransient, Canceled, WrappedCanceled}
\* Results a unit of work may return (with or without an error).
Results == {"nilResult", "value"}

\* errors.Is(err, context.Canceled): the error is, or wraps, context.Canceled.
IsCanceled(err) == err \in {Canceled, WrappedCanceled}

(***************************************************************************)
(* BackOff strategies (retry.go 130-157).                                  *)
(***************************************************************************)
RECURSIVE IntPow(_, _)
\* b^e for e >= 0.
IntPow(b, e) == IF e <= 0 THEN 1 ELSE b * IntPow(b, e - 1)

\* time.Duration(math.Pow(d.Seconds(), float64(e))): d.Seconds() is the
\* rational d/Second, its e-th power is d^e / Second^e, and the conversion of
\* the float64 to a Duration (an int64) truncates it to a whole number of
\* Duration units.
DurationOfPowSeconds(d, e) == IntPow(d, e) \div IntPow(Second, e)

NoBackOff == [kind |-> "nil", t |-> 0, initial |-> 0, exponential |-> 0]
NewConstantBackoff(t) ==
    [kind |-> "constant", t |-> t, initial |-> 0, exponential |-> 0]
NewExponentialBackoff(initial, exponential) ==
    [kind |-> "exponential", t |-> 0, initial |-> initial, exponential |-> exponential]

ConstantNext(b, i) == b.t

ExponentialNext(b, i) ==
    IF i > 1
    THEN b.initial + DurationOfPowSeconds(b.exponential, i - 1)
    ELSE b.initial

\* BackOff.Next, dispatched on the dynamic type.
BackOffNext(b, i) ==
    IF b.kind = "constant" THEN ConstantNext(b, i) ELSE ExponentialNext(b, i)

(***************************************************************************)
(* State.                                                                  *)
(***************************************************************************)
VARIABLES
    \* ---- Retry (retry.go) ----
    rMaxRetries,     \* RetryOptions.MaxRetries
    rPredicate,      \* RetryOptions.ErrorPredicate: NoPredicate (nil), or the
                     \* set of errors for which the predicate returns true
    rBackOff,        \* RetryOptions.BackOff (NoBackOff is nil)
    rHasInstr,       \* RetryOptions.Instrumentation != nil
    rHasLogger,      \* RetryOptions.Logger != nil
    rPc,             \* position of the one Execute under observation
    rI,              \* the loop variable i of Execute
    rRes, rErr,      \* the named results (res, err) of Execute
    rCalls,          \* the error of every req() invocation of this Execute, in order
    rLastPair,       \* the (result, error) pair of the last req() invocation
    rOutcome,        \* which of recordSuccess / recordFailure / recordExhausted ran
    rRecords,        \* Instrumentation.RecordRetryCall calls: <<attempts, outcome>>
    rLogs,           \* Logger calls, by message
    rWaits,          \* the durations Execute blocked for in backOff, in order
    rCtxCancelled,   \* the ctx given to this Execute has been cancelled
    \* ---- BackOff.Next as a pure function (retry.go 130-157) ----
    boB,             \* the BackOff the call is made on
    boI,             \* the argument i
    boT,             \* the duration returned
    boPc,            \* "idle" before any call, "returned" after one
    \* ---- CircuitBreaker (circuit_breaker.go) ----
    cbThreshold,     \* CircuitBreakerOptions.FailureRateThreshold, as the
                     \* numerator of a fraction of ThresholdDen
    cbWaitOpen,      \* CircuitBreakerOptions.WaitOpen, in minutes
    cbHasInstr,      \* CircuitBreakerOptions.Instrumentation != nil
    cbHasLogger,     \* CircuitBreakerOptions.Logger != nil
    cbLogs,          \* the Logger calls made during the latest step, in order
    cb,              \* the gobreaker.CircuitBreaker: state, generation, counts, expiry
    now,             \* the clock (time.Now()), in minutes
    cPc,             \* per caller: "idle", "running" (inside req), "returned"
    cGen,            \* per caller: the generation beforeRequest returned, while
                     \* its request is running (0 otherwise)
    cErr,            \* per caller: the error its Execute returned
    cInvoked,        \* per caller: whether its Execute invoked req
    cRecorded,       \* per caller: the error given to RecordCircuitBreakerCall
    hOpenedAt,       \* the time of the last transition into Open
    hTripCounts,     \* the counts ReadyToTrip was given when it last returned
                     \* true (cleared when the breaker closes again)
    \* ---- Timeout (kit.go 60-157) ----
    tHasInstr,       \* TimeoutOptions.Instrumentation != nil
    tHasLogger,      \* TimeoutOptions.Logger != nil
    tTimeLimit,      \* TimeoutOptions.TimeLimit, in units of 10 ms
    tPc,             \* "idle", "running" (inside req(ctx)), "returned"
    tElapsed,        \* time since this Execute derived its context
    tWorkPair,       \* the (result, error) pair req returned
    tRes, tErr,      \* the pair Execute returned
    tOutcome,        \* which of recordSuccess / recordTimeout / recordFailure ran
    tRecords,        \* Instrumentation.RecordTimeoutCall calls, by outcome
    tLogs,           \* Logger.Error calls, by message
    tReleased,       \* the deferred cancel() of the derived context has run
    \* ---- ResilienceKit (kit.go 1-58) ----
    kDone,           \* per accessor: the done flag of its sync.Once
    kLock,           \* per accessor: the holder of the Once's mutex, or NoHolder
    kField,          \* per accessor: the kit's field (p.retry, p.cb, p.timeout)
    kBuilt,          \* per accessor: how many executors its constructor has built
    kPc,             \* per goroutine: its position in the accessor
    kAcc,            \* per goroutine: the accessor it is calling
    kPath,           \* per goroutine: whether Do took the fast or the slow path
    kRet             \* per goroutine: what the accessor returned

rvars == <<rMaxRetries, rPredicate, rBackOff, rHasInstr, rHasLogger, rPc, rI,
           rRes, rErr, rCalls, rLastPair, rOutcome, rRecords, rLogs, rWaits,
           rCtxCancelled>>
bovars == <<boB, boI, boT, boPc>>
cbvars == <<cbThreshold, cbWaitOpen, cbHasInstr, cbHasLogger, cbLogs, cb, now,
            cPc, cGen, cErr, cInvoked, cRecorded, hOpenedAt, hTripCounts>>
tvars == <<tHasInstr, tHasLogger, tTimeLimit, tPc, tElapsed, tWorkPair, tRes, tErr,
           tOutcome, tRecords, tLogs, tReleased>>
kvars == <<kDone, kLock, kField, kBuilt, kPc, kAcc, kPath, kRet>>

(***************************************************************************)
(* Retry (retry.go 20-128).                                                *)
(***************************************************************************)
\* RetryOutcome (retry.go 22-26).
RetrySuccess == "RetrySuccess"
RetryFailedWithRetry == "RetryFailedWithRetry"
RetryFailedWithoutRetry == "RetryFailedWithoutRetry"

\* A nil RetryOptions.ErrorPredicate.
NoPredicate == [isNil |-> TRUE, accepts |-> {}]
\* An ErrorPredicate returning true exactly for the errors in accepts.
Predicate(accepts) == [isNil |-> FALSE, accepts |-> accepts]

\* The BackOff values a Retry is configured with in SpecRetry.
RetryBackOffs ==
    {NoBackOff, NewConstantBackoff(Second \div 2), NewExponentialBackoff(Second, 2 * Second)}

\* shouldRetry with the cancellation test always applied, also when a
\* predicate is supplied.
shouldRetry_AlwaysRefusesCancel(err) ==
    /\ ~IsCanceled(err)
    /\ rPredicate.isNil \/ err \in rPredicate.accepts

\* shouldRetry comparing with == instead of errors.Is: a wrapped
\* cancellation is not recognised.
shouldRetry_EqualsCanceled(err) ==
    IF rPredicate.isNil
    THEN err # Canceled
    ELSE err \in rPredicate.accepts

\* metrifiedRetry.shouldRetry.
shouldRetry(err) ==
    IF rPredicate.isNil
    THEN ~IsCanceled(err)
    ELSE err \in rPredicate.accepts

\* recordRetry: one Warn if a logger is present.
recordRetryLogs(logs) ==
    IF rHasLogger THEN Append(logs, "Retrying request.") ELSE logs

\* backOff: blocks for BackOff.Next(i) if a BackOff is configured.
backOffWaits(waits, i) ==
    IF rBackOff # NoBackOff THEN Append(waits, BackOffNext(rBackOff, i)) ELSE waits

\* recordSuccess reporting the attempt index instead of the attempt count.
recordSuccessRecords_AttemptIndex(recs, attempt) ==
    IF rHasInstr THEN Append(recs, <<attempt, RetrySuccess>>) ELSE recs

\* recordSuccess, recordFailure, recordExhausted: the RecordRetryCall each makes.
recordSuccessRecords(recs, attempt) ==
    IF rHasInstr THEN Append(recs, <<attempt + 1, RetrySuccess>>) ELSE recs
recordFailureRecords(recs, attempt) ==
    IF rHasInstr THEN Append(recs, <<attempt + 1, RetryFailedWithoutRetry>>) ELSE recs
recordExhaustedRecords(recs) ==
    IF rHasInstr THEN Append(recs, <<rMaxRetries + 1, RetryFailedWithRetry>>) ELSE recs
recordFailureLogs(logs) ==
    IF rHasLogger THEN Append(logs, "Request failed and will not be retried.") ELSE logs
recordExhaustedLogs(logs) ==
    IF rHasLogger THEN Append(logs, "All retries failed.") ELSE logs

\* The loop condition off by one: i < r.opts.MaxRetries.
LoopCondition_Strict(i) == i < rMaxRetries

\* The loop condition with one iteration too many.
LoopCondition_OneMore(i) == i <= rMaxRetries + 1

\* The loop condition of Execute, i <= r.opts.MaxRetries.
LoopCondition(i) == i <= rMaxRetries

RetryConfigUnchanged ==
    UNCHANGED <<rMaxRetries, rPredicate, rBackOff, rHasInstr, rHasLogger>>

\* Execute is called: res and err are the zero values, i := 0.  With
\* MaxRetries >= 0 the loop body is entered and, as i = 0, req() is next
\* (with a negative MaxRetries the loop would be skipped).  The observations
\* of the previous Execute are forgotten.
RetryExecute ==
    /\ rPc \in {"idle", "returned"}
    /\ rI' = 0
    /\ rRes' = "nilResult"
    /\ rErr' = Nil
    /\ rCalls' = <<>>
    /\ rLastPair' = <<"nilResult", Nil>>
    /\ rWaits' = <<>>
    /\ rCtxCancelled' = FALSE
    /\ IF LoopCondition(0)
       THEN /\ rPc' = "call"
            /\ rOutcome' = "none"
            /\ rRecords' = <<>>
            /\ rLogs' = <<>>
       ELSE /\ rLogs' = recordExhaustedLogs(<<>>)
            /\ rRecords' = recordExhaustedRecords(<<>>)
            /\ rOutcome' = RetryFailedWithRetry
            /\ rPc' = "returned"
    /\ RetryConfigUnchanged

\* Lines 68-71, for i > 0: recordRetry, then backOff.
RetryBackOff ==
    /\ rPc = "backoff"
    /\ rLogs' = recordRetryLogs(rLogs)
    /\ rWaits' = backOffWaits(rWaits, rI)
    /\ rPc' = "call"
    /\ UNCHANGED <<rI, rRes, rErr, rCalls, rLastPair, rOutcome, rRecords,
                   rCtxCancelled>>
    /\ RetryConfigUnchanged

\* Lines 73-82: req() returns (res, err); success and a failure that is not
\* to be retried return; otherwise i++ and either the next iteration begins
\* or the loop ends, recordExhausted runs and Execute returns.
RetryCall(res, err) ==
    /\ rPc = "call"
    /\ rRes' = res
    /\ rErr' = err
    /\ rCalls' = Append(rCalls, err)
    /\ rLastPair' = <<res, err>>
    /\ UNCHANGED <<rWaits, rCtxCancelled>>
    /\ IF err = Nil
       THEN /\ rRecords' = recordSuccessRecords(rRecords, rI)
            /\ rOutcome' = RetrySuccess
            /\ rPc' = "returned"
            /\ UNCHANGED <<rI, rLogs>>
       ELSE IF ~shouldRetry(err)
       THEN /\ rRecords' = recordFailureRecords(rRecords, rI)
            /\ rLogs' = recordFailureLogs(rLogs)
            /\ rOutcome' = RetryFailedWithoutRetry
            /\ rPc' = "returned"
            /\ UNCHANGED rI
       ELSE /\ rI' = rI + 1
            /\ IF LoopCondition(rI + 1)
               THEN /\ rPc' = "backoff"
                    /\ UNCHANGED <<rRecords, rLogs, rOutcome>>
               ELSE /\ rLogs' = recordExhaustedLogs(rLogs)
                    /\ rRecords' = recordExhaustedRecords(rRecords)
                    /\ rOutcome' = RetryFailedWithRetry
                    /\ rPc' = "returned"
    /\ RetryConfigUnchanged

\* The caller cancels the ctx it gave to Execute while Execute is running.
\* Execute hands ctx to the logger and the instrumentation only: neither the
\* loop nor backOff reads it.
RetryCtxCancel ==
    /\ rPc \in {"call", "backoff"}
    /\ ~rCtxCancelled
    /\ rCtxCancelled' = TRUE
    /\ UNCHANGED <<rPc, rI, rRes, rErr, rCalls, rLastPair, rOutcome, rRecords,
                   rLogs, rWaits>>
    /\ RetryConfigUnchanged

\* NewRetry(opts) for every opts explored; no Execute has been called.
RetryInit ==
    /\ rMaxRetries \in 0..MaxMaxRetries
    /\ rPredicate \in {NoPredicate} \cup {Predicate(a) : a \in SUBSET Errors}
    /\ rBackOff \in RetryBackOffs
    /\ rHasInstr \in BOOLEAN
    /\ rHasLogger \in BOOLEAN
    /\ rPc = "idle"
    /\ rI = 0
    /\ rRes = "nilResult"
    /\ rErr = Nil
    /\ rCalls = <<>>
    /\ rLastPair = <<"nilResult", Nil>>
    /\ rOutcome = "none"
    /\ rRecords = <<>>
    /\ rLogs = <<>>
    /\ rWaits = <<>>
    /\ rCtxCancelled = FALSE

\* One fixed Retry, for the specifications of the other components.
RetryFixed ==
    /\ rMaxRetries = 0
    /\ rPredicate = NoPredicate
    /\ rBackOff = NoBackOff
    /\ rHasInstr = FALSE
    /\ rHasLogger = FALSE
    /\ rPc = "idle"
    /\ rI = 0
    /\ rRes = "nilResult"
    /\ rErr = Nil
    /\ rCalls = <<>>
    /\ rLastPair = <<"nilResult", Nil>>
    /\ rOutcome = "none"
    /\ rRecords = <<>>
    /\ rLogs = <<>>
    /\ rWaits = <<>>
    /\ rCtxCancelled = FALSE

RetryNext ==
    \/ RetryExecute /\ UNCHANGED <<bovars, cbvars, tvars, kvars>>
    \/ RetryBackOff /\ UNCHANGED <<bovars, cbvars, tvars, kvars>>
    \/ RetryCtxCancel /\ UNCHANGED <<bovars, cbvars, tvars, kvars>>
    \/ \E res \in Results, err \in {Nil} \cup Errors :
          RetryCall(res, err) /\ UNCHANGED <<bovars, cbvars, tvars, kvars>>

(***************************************************************************)
(* BackOff.Next called on its own.                                         *)
(***************************************************************************)
\* Durations of 0, 0.5 s, 1 s, ... MaxHalfSeconds/2 s.
Durations == {(h * Second) \div 2 : h \in 0..MaxHalfSeconds}

BackOffs ==
    {NewConstantBackoff(t) : t \in Durations}
        \cup {NewExponentialBackoff(a, b) : a \in Durations, b \in Durations}

BackOffInit ==
    /\ boB \in BackOffs
    /\ boI = 0
    /\ boT = 0
    /\ boPc = "idle"

BackOffFixed ==
    /\ boB = NewConstantBackoff(0)
    /\ boI = 0
    /\ boT = 0
    /\ boPc = "idle"

\* b.Next(i) is called and returns.
BackOffCall(i) ==
    /\ boI' = i
    /\ boT' = BackOffNext(boB, i)
    /\ boPc' = "returned"
    /\ UNCHANGED boB

BackOffStep == \E i \in 0..MaxAttempt : BackOffCall(i) /\ UNCHANGED <<rvars, cbvars, tvars, kvars>>

(***************************************************************************)
(* The gobreaker state machine (github.com/sony/gobreaker, imported at     *)
(* circuit_breaker.go 7 and driven through cb.cb.Execute at line 60).      *)
(* Time is counted in minutes.                                             *)
(***************************************************************************)
StateClosed == "closed"
StateHalfOpen == "half-open"
StateOpen == "open"

\* gobreaker's errors, and the failure of the unit of work.
ErrOpenState == "circuit breaker is open"
ErrTooManyRequests == "too many requests"
ErrWork == "ErrWork"

\* The zero time.Time (expiry.IsZero()); it is before every time of the clock.
ZeroTime == 0 - 1

\* gobreaker's defaults: Timeout <= 0 means 60 seconds; MaxRequests == 0
\* (as here) means one request in the half-open state.
defaultTimeout == 1
maxRequests == 1

ThresholdDen == 2 * ThresholdHalves

\* The goroutines calling Execute on the one breaker, concurrently.
Callers == {"c1", "c2"}

\* Counts.clear().
ClearedCounts ==
    [Requests |-> 0, TotalSuccesses |-> 0, TotalFailures |-> 0,
     ConsecutiveSuccesses |-> 0, ConsecutiveFailures |-> 0]

\* ReadyToTrip with > instead of >=.
ReadyToTrip_Strict(counts) ==
    LET total == counts.TotalSuccesses + counts.TotalFailures
    IN  IF total = 0 THEN FALSE
        ELSE counts.TotalFailures * ThresholdDen > cbThreshold * total

\* The ReadyToTrip callback of NewCircuitBreaker (circuit_breaker.go 42-46):
\* failureRate = TotalFailures / total >= FailureRateThreshold, in float64.
\* With total = 0 the quotient 0/0 is NaN, and every comparison with NaN is
\* false.  Otherwise f/total >= k/ThresholdDen iff f*ThresholdDen >= k*total.
ReadyToTrip(counts) ==
    LET total == counts.TotalSuccesses + counts.TotalFailures
    IN  IF total = 0 THEN FALSE
        ELSE counts.TotalFailures * ThresholdDen >= cbThreshold * total

\* Settings.Timeout of a different length than WaitOpen.
SettingsTimeout_Halved == cbWaitOpen \div 2
SettingsTimeout_Doubled == 2 * cbWaitOpen

\* Settings.Timeout: opts.WaitOpen (circuit_breaker.go 40).
SettingsTimeout == cbWaitOpen

\* Settings.Interval: 1 * time.Minute (circuit_breaker.go 41).
Interval == 1

\* cb.timeout and cb.interval as gobreaker.NewCircuitBreaker sets them.
timeout == IF SettingsTimeout <= 0 THEN defaultTimeout ELSE SettingsTimeout
interval == IF Interval <= 0 THEN 0 ELSE Interval

\* toNewGeneration(now): generation++, the counts are cleared, and the
\* expiry is set by the state.
toNewGeneration(b, t) ==
    [b EXCEPT !.generation = @ + 1,
              !.counts = ClearedCounts,
              !.expiry = IF b.state = StateClosed
                         THEN (IF interval = 0 THEN ZeroTime ELSE t + interval)
                         ELSE IF b.state = StateOpen THEN t + timeout
                         ELSE ZeroTime]

\* setState(state, now): nothing if the state is the same; otherwise the
\* state changes and a new generation begins (then OnStateChange is called).
setState(b, st, t) ==
    IF b.state = st THEN b
    ELSE toNewGeneration([b EXCEPT !.state = st], t)

\* currentState(now): a closed breaker whose interval has expired begins a
\* new generation; an open breaker whose timeout has expired becomes
\* half-open.  expiry.Before(now) is strict.
currentState(b, t) ==
    IF b.state = StateClosed
    THEN (IF b.expiry # ZeroTime /\ b.expiry < t THEN toNewGeneration(b, t) ELSE b)
    ELSE IF b.state = StateOpen
    THEN (IF b.expiry < t THEN setState(b, StateHalfOpen, t) ELSE b)
    ELSE b

\* Counts.onRequest, onSuccess, onFailure.
countsOnRequest(c) == [c EXCEPT !.Requests = @ + 1]
countsOnSuccess(c) ==
    [c EXCEPT !.TotalSuccesses = @ + 1, !.ConsecutiveSuccesses = @ + 1,
              !.ConsecutiveFailures = 0]
countsOnFailure(c) ==
    [c EXCEPT !.TotalFailures = @ + 1, !.ConsecutiveFailures = @ + 1,
              !.ConsecutiveSuccesses = 0]

\* onSuccess(state, now).
onSuccess(b, t) ==
    IF b.state = StateClosed
    THEN [b EXCEPT !.counts = countsOnSuccess(@)]
    ELSE IF b.state = StateHalfOpen
    THEN LET c == [b EXCEPT !.counts = countsOnSuccess(@)]
         IN  IF c.counts.ConsecutiveSuccesses >= maxRequests
             THEN setState(c, StateClosed, t)
             ELSE c
    ELSE b

\* onFailure(state, now): ReadyToTrip is consulted only here, after a
\* failure counted in the closed state.
onFailure(b, t) ==
    IF b.state = StateClosed
    THEN LET c == [b EXCEPT !.counts = countsOnFailure(@)]
         IN  IF ReadyToTrip(c.counts) THEN setState(c, StateOpen, t) ELSE c
    ELSE IF b.state = StateHalfOpen
    THEN setState(b, StateOpen, t)
    ELSE b

\* beforeRequest(): the error it returns (Nil when the request is admitted).
beforeRequestErr(b) ==
    IF b.state = StateOpen THEN ErrOpenState
    ELSE IF b.state = StateHalfOpen /\ b.counts.Requests >= maxRequests
    THEN ErrTooManyRequests
    ELSE Nil

\* afterRequest(before, success): a request of an earlier generation is
\* dropped.
afterRequest(b, before, success, t) ==
    LET c == currentState(b, t)
    IN  IF c.generation # before THEN c
        ELSE IF success THEN onSuccess(c, t) ELSE onFailure(c, t)

(***************************************************************************)
(* CircuitBreaker (circuit_breaker.go 37-65).                              *)
(***************************************************************************)
CBConfigUnchanged == UNCHANGED <<cbThreshold, cbWaitOpen, cbHasInstr, cbHasLogger>>

\* CircuitBreakerOptions.Name, the name of the policy.
CBName == "breaker"

\* The three Logger calls of logCircuitBreakerStateTransition.
TransitionEvent(from, to) ==
    <<"Info", "Circuit breaker state transition", CBName, from, to>>
OpenEvent == <<"CircuitBreakerOpen", "Circuit breaker is open.", CBName>>
ClosedEvent == <<"Info", "Circuit breaker is closed.", CBName>>

\* logCircuitBreakerStateTransition raising the alert on every transition
\* into Open.
logCircuitBreakerStateTransition_AlertOnOpen(from, to) ==
    IF ~cbHasLogger THEN <<>>
    ELSE <<TransitionEvent(from, to)>>
            \o (IF to = StateOpen THEN <<OpenEvent>>
                ELSE IF to = StateClosed THEN <<ClosedEvent>>
                ELSE <<>>)

\* logCircuitBreakerStateTransition(opts.Logger)(name, from, to): the Logger
\* calls the OnStateChange callback makes.
logCircuitBreakerStateTransition(from, to) ==
    IF ~cbHasLogger THEN <<>>
    ELSE <<TransitionEvent(from, to)>>
            \o (IF from = StateClosed /\ to = StateOpen THEN <<OpenEvent>>
                ELSE IF to = StateClosed THEN <<ClosedEvent>>
                ELSE <<>>)

\* setState calls OnStateChange(name, prev, state) when it changes the
\* state; a step of Execute changes the state at most once.
OnStateChangeLogs(b2) ==
    IF cb.state # b2.state
    THEN logCircuitBreakerStateTransition(cb.state, b2.state)
    ELSE <<>>

\* The time of the last transition into Open, kept beside the breaker.
OpenedAtAfter(b2) ==
    IF cb.state # StateOpen /\ b2.state = StateOpen THEN now ELSE hOpenedAt

\* RecordCircuitBreakerCall(name, err), if instrumentation is present.
Recorded(err) == IF cbHasInstr THEN err ELSE "none"

\* The counts ReadyToTrip was last given when it tripped the breaker.
TripCountsAfter(b2) ==
    IF cb.state = StateClosed /\ b2.state = StateOpen
    THEN countsOnFailure(currentState(cb, now).counts)
    ELSE IF b2.state = StateClosed THEN ClearedCounts
    ELSE hTripCounts

\* Execute feeding the rejection error of beforeRequest into the counters
\* as if req had failed.
CBExecute_CountsRejected(p) ==
    /\ cPc[p] = "idle"
    /\ LET b1 == currentState(cb, now)
           e == beforeRequestErr(b1)
       IN  IF e # Nil
           THEN /\ cb' = [b1 EXCEPT !.counts = countsOnFailure(@)]
                /\ cPc' = [cPc EXCEPT ![p] = "returned"]
                /\ cErr' = [cErr EXCEPT ![p] = e]
                /\ cInvoked' = [cInvoked EXCEPT ![p] = FALSE]
                /\ cRecorded' = [cRecorded EXCEPT ![p] = Recorded(e)]
                /\ cGen' = [cGen EXCEPT ![p] = 0]
                /\ hOpenedAt' = OpenedAtAfter(b1)
                /\ cbLogs' = OnStateChangeLogs(b1)
           ELSE /\ b1.counts.Requests < MaxCallsPerGeneration
                /\ cb' = [b1 EXCEPT !.counts = countsOnRequest(@)]
                /\ cPc' = [cPc EXCEPT ![p] = "running"]
                /\ cErr' = [cErr EXCEPT ![p] = Nil]
                /\ cInvoked' = [cInvoked EXCEPT ![p] = TRUE]
                /\ cRecorded' = [cRecorded EXCEPT ![p] = "none"]
                /\ cGen' = [cGen EXCEPT ![p] = b1.generation]
                /\ hOpenedAt' = OpenedAtAfter(b1)
                /\ cbLogs' = OnStateChangeLogs(b1)
    /\ UNCHANGED <<now, hTripCounts>>
    /\ CBConfigUnchanged

\* Execute invoking req whatever beforeRequest answers.
CBExecute_InvokesRejected(p) ==
    /\ cPc[p] = "idle"
    /\ LET b1 == currentState(cb, now)
           e == beforeRequestErr(b1)
       IN  IF e # Nil
           THEN /\ cb' = b1
                /\ cPc' = [cPc EXCEPT ![p] = "returned"]
                /\ cErr' = [cErr EXCEPT ![p] = e]
                /\ cInvoked' = [cInvoked EXCEPT ![p] = TRUE]
                /\ cRecorded' = [cRecorded EXCEPT ![p] = Recorded(e)]
                /\ cGen' = [cGen EXCEPT ![p] = 0]
                /\ hOpenedAt' = OpenedAtAfter(b1)
                /\ cbLogs' = OnStateChangeLogs(b1)
           ELSE /\ b1.counts.Requests < MaxCallsPerGeneration
                /\ cb' = [b1 EXCEPT !.counts = countsOnRequest(@)]
                /\ cPc' = [cPc EXCEPT ![p] = "running"]
                /\ cErr' = [cErr EXCEPT ![p] = Nil]
                /\ cInvoked' = [cInvoked EXCEPT ![p] = TRUE]
                /\ cRecorded' = [cRecorded EXCEPT ![p] = "none"]
                /\ cGen' = [cGen EXCEPT ![p] = b1.generation]
                /\ hOpenedAt' = OpenedAtAfter(b1)
                /\ cbLogs' = OnStateChangeLogs(b1)
    /\ UNCHANGED <<now, hTripCounts>>
    /\ CBConfigUnchanged

\* Execute, up to the invocation of req: beforeRequest either rejects the
\* call, and Execute records and returns its error without invoking req, or
\* admits it, and req is invoked.
CBExecute(p) ==
    /\ cPc[p] = "idle"
    /\ LET b1 == currentState(cb, now)
           e == beforeRequestErr(b1)
       IN  IF e # Nil
           THEN /\ cb' = b1
                /\ cPc' = [cPc EXCEPT ![p] = "returned"]
                /\ cErr' = [cErr EXCEPT ![p] = e]
                /\ cInvoked' = [cInvoked EXCEPT ![p] = FALSE]
                /\ cRecorded' = [cRecorded EXCEPT ![p] = Recorded(e)]
                /\ cGen' = [cGen EXCEPT ![p] = 0]
                /\ hOpenedAt' = OpenedAtAfter(b1)
                /\ cbLogs' = OnStateChangeLogs(b1)
           ELSE /\ b1.counts.Requests < MaxCallsPerGeneration
                /\ cb' = [b1 EXCEPT !.counts = countsOnRequest(@)]
                /\ cPc' = [cPc EXCEPT ![p] = "running"]
                /\ cErr' = [cErr EXCEPT ![p] = Nil]
                /\ cInvoked' = [cInvoked EXCEPT ![p] = TRUE]
                /\ cRecorded' = [cRecorded EXCEPT ![p] = "none"]
                /\ cGen' = [cGen EXCEPT ![p] = b1.generation]
                /\ hOpenedAt' = OpenedAtAfter(b1)
                /\ cbLogs' = OnStateChangeLogs(b1)
    /\ UNCHANGED <<now, hTripCounts>>
    /\ CBConfigUnchanged

\* Execute feeding the outcome of req into the state machine twice.
CBReqReturns_CountsTwice(p, err) ==
    /\ cPc[p] = "running"
    /\ LET b2 == afterRequest(afterRequest(cb, cGen[p], err = Nil, now),
                              cGen[p], err = Nil, now)
       IN  /\ cb' = b2
           /\ hOpenedAt' = OpenedAtAfter(b2)
           /\ hTripCounts' = TripCountsAfter(b2)
           /\ cbLogs' = OnStateChangeLogs(b2)
    /\ cPc' = [cPc EXCEPT ![p] = "returned"]
    /\ cErr' = [cErr EXCEPT ![p] = err]
    /\ cRecorded' = [cRecorded EXCEPT ![p] = Recorded(err)]
    /\ cGen' = [cGen EXCEPT ![p] = 0]
    /\ UNCHANGED <<cInvoked, now>>
    /\ CBConfigUnchanged

\* req returns (Nil or an error): afterRequest feeds the outcome to the
\* state machine, Execute records the error and returns it unmodified.
CBReqReturns(p, err) ==
    /\ cPc[p] = "running"
    /\ LET b2 == afterRequest(cb, cGen[p], err = Nil, now)
       IN  /\ cb' = b2
           /\ hOpenedAt' = OpenedAtAfter(b2)
           /\ hTripCounts' = TripCountsAfter(b2)
           /\ cbLogs' = OnStateChangeLogs(b2)
    /\ cPc' = [cPc EXCEPT ![p] = "returned"]
    /\ cErr' = [cErr EXCEPT ![p] = err]
    /\ cRecorded' = [cRecorded EXCEPT ![p] = Recorded(err)]
    /\ cGen' = [cGen EXCEPT ![p] = 0]
    /\ UNCHANGED <<cInvoked, now>>
    /\ CBConfigUnchanged

\* The caller has taken the (result, error) pair its Execute returned.
CBReturned(p) ==
    /\ cPc[p] = "returned"
    /\ cPc' = [cPc EXCEPT ![p] = "idle"]
    /\ cErr' = [cErr EXCEPT ![p] = Nil]
    /\ cInvoked' = [cInvoked EXCEPT ![p] = FALSE]
    /\ cRecorded' = [cRecorded EXCEPT ![p] = "none"]
    /\ cbLogs' = <<>>
    /\ UNCHANGED <<cb, now, cGen, hOpenedAt, hTripCounts>>
    /\ CBConfigUnchanged

\* A minute passes.
Tick ==
    /\ now < MaxTime
    /\ now' = now + 1
    /\ cbLogs' = <<>>
    /\ UNCHANGED <<cb, cPc, cGen, cErr, cInvoked, cRecorded, hOpenedAt, hTripCounts>>
    /\ CBConfigUnchanged

\* NewCircuitBreaker(opts) at time 0: closed, and toNewGeneration(now).
NewBreaker ==
    toNewGeneration([state |-> StateClosed, generation |-> 0,
                     counts |-> ClearedCounts, expiry |-> ZeroTime], 0)

CBInit ==
    /\ cbThreshold \in 0..ThresholdDen
    /\ cbWaitOpen \in 0..MaxWaitOpen
    /\ cbHasInstr \in BOOLEAN
    /\ cbHasLogger \in BOOLEAN
    /\ cbLogs = <<>>
    /\ now = 0
    /\ cb = NewBreaker
    /\ cPc = [p \in Callers |-> "idle"]
    /\ cGen = [p \in Callers |-> 0]
    /\ cErr = [p \in Callers |-> Nil]
    /\ cInvoked = [p \in Callers |-> FALSE]
    /\ cRecorded = [p \in Callers |-> "none"]
    /\ hOpenedAt = 0
    /\ hTripCounts = ClearedCounts

CBFixed ==
    /\ cbThreshold = ThresholdDen
    /\ cbWaitOpen = MaxWaitOpen
    /\ cbHasInstr = FALSE
    /\ cbHasLogger = FALSE
    /\ cbLogs = <<>>
    /\ now = 0
    /\ cb = NewBreaker
    /\ cPc = [p \in Callers |-> "idle"]
    /\ cGen = [p \in Callers |-> 0]
    /\ cErr = [p \in Callers |-> Nil]
    /\ cInvoked = [p \in Callers |-> FALSE]
    /\ cRecorded = [p \in Callers |-> "none"]
    /\ hOpenedAt = 0
    /\ hTripCounts = ClearedCounts

CBNext ==
    \/ \E p \in Callers : CBExecute(p) /\ UNCHANGED <<rvars, bovars, tvars, kvars>>
    \/ \E p \in Callers, err \in {Nil, ErrWork} :
          CBReqReturns(p, err) /\ UNCHANGED <<rvars, bovars, tvars, kvars>>
    \/ \E p \in Callers : CBReturned(p) /\ UNCHANGED <<rvars, bovars, tvars, kvars>>
    \/ Tick /\ UNCHANGED <<rvars, bovars, tvars, kvars>>

(***************************************************************************)
(* Timeout (kit.go 60-157).  Time is counted in units of 10 ms.            *)
(***************************************************************************)
TimeoutSuccess == "Success"
TimeoutFailed == "Failed"
TimeoutTimedOut == "TimedOut"

\* context.DeadlineExceeded itself, and an error wrapping it.
DeadlineExceeded == "context.DeadlineExceeded"
WrappedDeadlineExceeded == "wrapped(context.DeadlineExceeded)"
\* The errors req may return.
TimeoutErrors == {DeadlineExceeded, WrappedDeadlineExceeded, ErrWork, Canceled}

\* errors.Is(err, context.DeadlineExceeded).
IsDeadlineExceeded(err) == err \in {DeadlineExceeded, WrappedDeadlineExceeded}

\* ctx.Err() of the derived context while req runs: the deadline is
\* TimeLimit after the context was derived.
CtxErr == IF tElapsed >= tTimeLimit THEN DeadlineExceeded ELSE Nil

\* The classification without its deadline branch.
TimeoutClassify_NoDeadlineBranch(err) ==
    IF err = Nil THEN TimeoutSuccess ELSE TimeoutFailed

\* Execute, lines 122-128: which record function runs for err.
TimeoutClassify(err) ==
    IF err = Nil THEN TimeoutSuccess
    ELSE IF IsDeadlineExceeded(err) THEN TimeoutTimedOut
    ELSE TimeoutFailed

\* recordSuccess, recordTimeout, recordFailure: the RecordTimeoutCall and
\* the Logger.Error each makes.
TimeoutRecords(recs, outcome) ==
    IF tHasInstr THEN Append(recs, outcome) ELSE recs
TimeoutLogs(logs, outcome) ==
    IF ~tHasLogger \/ outcome = TimeoutSuccess THEN logs
    ELSE IF outcome = TimeoutTimedOut THEN Append(logs, "Request timed out.")
    ELSE Append(logs, "Timed request failed for non-timeout reasons.")

TimeoutConfigUnchanged == UNCHANGED <<tHasInstr, tHasLogger, tTimeLimit>>

\* Execute is called: context.WithTimeout derives the context and req(ctx)
\* is invoked.
TimeoutExecute ==
    /\ tPc \in {"idle", "returned"}
    /\ tPc' = "running"
    /\ tElapsed' = 0
    /\ tWorkPair' = <<"nilResult", Nil>>
    /\ tRes' = "nilResult"
    /\ tErr' = Nil
    /\ tOutcome' = "none"
    /\ tRecords' = <<>>
    /\ tLogs' = <<>>
    /\ tReleased' = FALSE
    /\ TimeoutConfigUnchanged

\* 10 ms pass while req runs; Execute is blocked in req(ctx) and does
\* nothing when the deadline passes.
TimeoutTick ==
    /\ tPc = "running"
    /\ tElapsed < MaxWorkTime
    /\ tElapsed' = tElapsed + 1
    /\ UNCHANGED <<tPc, tWorkPair, tRes, tErr, tOutcome, tRecords, tLogs, tReleased>>
    /\ TimeoutConfigUnchanged

\* req returns (r, err): Execute classifies err, records, runs the deferred
\* cancel and returns (r, err).
TimeoutReqReturns(r, err) ==
    /\ tPc = "running"
    /\ tWorkPair' = <<r, err>>
    /\ tOutcome' = TimeoutClassify(err)
    /\ tRecords' = TimeoutRecords(tRecords, TimeoutClassify(err))
    /\ tLogs' = TimeoutLogs(tLogs, TimeoutClassify(err))
    /\ tRes' = r
    /\ tErr' = err
    /\ tReleased' = TRUE
    /\ tPc' = "returned"
    /\ UNCHANGED tElapsed
    /\ TimeoutConfigUnchanged

\* NewTimeout(opts) for every opts explored; no Execute has been called.
TimeoutInit ==
    /\ tHasInstr \in BOOLEAN
    /\ tHasLogger \in BOOLEAN
    /\ tTimeLimit \in 1..MaxTimeLimit
    /\ tPc = "idle"
    /\ tElapsed = 0
    /\ tWorkPair = <<"nilResult", Nil>>
    /\ tRes = "nilResult"
    /\ tErr = Nil
    /\ tOutcome = "none"
    /\ tRecords = <<>>
    /\ tLogs = <<>>
    /\ tReleased = FALSE

\* One fixed Timeout, for the specifications of the other components.
TimeoutFixed ==
    /\ tHasInstr = FALSE
    /\ tHasLogger = FALSE
    /\ tTimeLimit = 1
    /\ tPc = "idle"
    /\ tElapsed = 0
    /\ tWorkPair = <<"nilResult", Nil>>
    /\ tRes = "nilResult"
    /\ tErr = Nil
    /\ tOutcome = "none"
    /\ tRecords = <<>>
    /\ tLogs = <<>>
    /\ tReleased = FALSE

TimeoutNext ==
    \/ TimeoutExecute /\ UNCHANGED <<rvars, bovars, cbvars, kvars>>
    \/ TimeoutTick /\ UNCHANGED <<rvars, bovars, cbvars, kvars>>
    \/ \E r \in Results, err \in {Nil} \cup TimeoutErrors :
          TimeoutReqReturns(r, err) /\ UNCHANGED <<rvars, bovars, cbvars, kvars>>

(***************************************************************************)
(* ResilienceKit (kit.go 1-58).  Each accessor runs its constructor inside *)
(* the Do of its own sync.Once and then returns the kit's field.  Do reads *)
(* the done flag; if it is not set it locks the Once's mutex, reads the    *)
(* flag again and, if it is still not set, runs the function and then      *)
(* sets the flag; it unlocks the mutex and returns.                        *)
(***************************************************************************)
Accessors == {"Retry", "CircuitBreaker", "Timeout"}
Goroutines == {"g1", "g2"}
NoHolder == "none"
\* The nil interface value of a field not yet assigned; the executors built
\* by an accessor's constructor are numbered 1, 2, ...
NilExecutor == 0

\* An accessor entering the function of its Once whether or not another
\* goroutine is inside it (a lazy initialisation without the Once).
KitCall_WithoutOnce(g, a) ==
    /\ kPc[g] = "idle"
    /\ kAcc' = [kAcc EXCEPT ![g] = a]
    /\ kPath' = [kPath EXCEPT ![g] = "slow"]
    /\ kRet' = [kRet EXCEPT ![g] = NilExecutor]
    /\ kPc' = [kPc EXCEPT ![g] = IF kField[a] = NilExecutor THEN "construct" ELSE "return"]
    /\ UNCHANGED <<kDone, kLock, kField, kBuilt>>

\* Goroutine g calls accessor a: Retry(), CircuitBreaker() or Timeout()
\* calls Do on the accessor's Once.
KitCall(g, a) ==
    /\ kPc[g] = "idle"
    /\ kAcc' = [kAcc EXCEPT ![g] = a]
    /\ kPath' = [kPath EXCEPT ![g] = "none"]
    /\ kRet' = [kRet EXCEPT ![g] = NilExecutor]
    /\ kPc' = [kPc EXCEPT ![g] = "do"]
    /\ UNCHANGED <<kDone, kLock, kField, kBuilt>>

\* Once.Do, fast path: done is read; if set, Do returns.
OnceDo(g) ==
    /\ kPc[g] = "do"
    /\ IF kDone[kAcc[g]]
       THEN /\ kPc' = [kPc EXCEPT ![g] = "return"]
            /\ kPath' = [kPath EXCEPT ![g] = "fast"]
       ELSE /\ kPc' = [kPc EXCEPT ![g] = "lock"]
            /\ kPath' = [kPath EXCEPT ![g] = "slow"]
    /\ UNCHANGED <<kDone, kLock, kField, kBuilt, kAcc, kRet>>

\* Once.doSlow: the mutex is acquired, and done is read again.
OnceLock(g) ==
    /\ kPc[g] = "lock"
    /\ kLock[kAcc[g]] = NoHolder
    /\ kLock' = [kLock EXCEPT ![kAcc[g]] = g]
    /\ kPc' = [kPc EXCEPT ![g] = IF kDone[kAcc[g]] THEN "unlock" ELSE "construct"]
    /\ UNCHANGED <<kDone, kField, kBuilt, kAcc, kPath, kRet>>

\* The function given to Do: p.retry = NewRetry(p.opts.Retry), and the same
\* for the circuit breaker and the timeout; the constructor builds a new
\* executor each time it runs.
KitConstruct(g) ==
    /\ kPc[g] = "construct"
    /\ kBuilt' = [kBuilt EXCEPT ![kAcc[g]] = @ + 1]
    /\ kField' = [kField EXCEPT ![kAcc[g]] = kBuilt[kAcc[g]] + 1]
    /\ kPc' = [kPc EXCEPT ![g] = "store"]
    /\ UNCHANGED <<kDone, kLock, kAcc, kPath, kRet>>

\* Once.doSlow: done is set once the function has returned.
OnceStoreDone(g) ==
    /\ kPc[g] = "store"
    /\ kDone' = [kDone EXCEPT ![kAcc[g]] = TRUE]
    /\ kPc' = [kPc EXCEPT ![g] = "unlock"]
    /\ UNCHANGED <<kLock, kField, kBuilt, kAcc, kPath, kRet>>

\* Once.doSlow: the mutex is released, and Do returns.
OnceUnlock(g) ==
    /\ kPc[g] = "unlock"
    /\ kLock' = [kLock EXCEPT ![kAcc[g]] = IF @ = g THEN NoHolder ELSE @]
    /\ kPc' = [kPc EXCEPT ![g] = "return"]
    /\ UNCHANGED <<kDone, kField, kBuilt, kAcc, kPath, kRet>>

\* return p.retry (p.cb, p.timeout): the field is read and returned.
KitReturn(g) ==
    /\ kPc[g] = "return"
    /\ kRet' = [kRet EXCEPT ![g] = kField[kAcc[g]]]
    /\ kPc' = [kPc EXCEPT ![g] = "returned"]
    /\ UNCHANGED <<kDone, kLock, kField, kBuilt, kAcc, kPath>>

\* The caller has its executor and may call an accessor again.
KitReturned(g) ==
    /\ kPc[g] = "returned"
    /\ kPc' = [kPc EXCEPT ![g] = "idle"]
    /\ UNCHANGED <<kDone, kLock, kField, kBuilt, kAcc, kPath, kRet>>

\* NewResilienceKit(opts): no executor built, every Once unused.
KitInit ==
    /\ kDone = [a \in Accessors |-> FALSE]
    /\ kLock = [a \in Accessors |-> NoHolder]
    /\ kField = [a \in Accessors |-> NilExecutor]
    /\ kBuilt = [a \in Accessors |-> 0]
    /\ kPc = [g \in Goroutines |-> "idle"]
    /\ kAcc = [g \in Goroutines |-> "Retry"]
    /\ kPath = [g \in Goroutines |-> "none"]
    /\ kRet = [g \in Goroutines |-> NilExecutor]

\* The same kit, for the specifications of the other components.
KitFixed == KitInit

KitNext ==
    \/ \E g \in Goroutines, a \in Accessors :
          KitCall(g, a) /\ UNCHANGED <<rvars, bovars, cbvars, tvars>>
    \/ \E g \in Goroutines : OnceDo(g) /\ UNCHANGED <<rvars, bovars, cbvars, tvars>>
    \/ \E g \in Goroutines : OnceLock(g) /\ UNCHANGED <<rvars, bovars, cbvars, tvars>>
    \/ \E g \in Goroutines : KitConstruct(g) /\ UNCHANGED <<rvars, bovars, cbvars, tvars>>
    \/ \E g \in Goroutines : OnceStoreDone(g) /\ UNCHANGED <<rvars, bovars, cbvars, tvars>>
    \/ \E g \in Goroutines : OnceUnlock(g) /\ UNCHANGED <<rvars, bovars, cbvars, tvars>>
    \/ \E g \in Goroutines : KitReturn(g) /\ UNCHANGED <<rvars, bovars, cbvars, tvars>>
    \/ \E g \in Goroutines : KitReturned(g) /\ UNCHANGED <<rvars, bovars, cbvars, tvars>>

vars == <<rvars, bovars, cbvars, tvars, kvars>>

InitRetry == RetryInit /\ BackOffFixed /\ CBFixed /\ TimeoutFixed /\ KitFixed
SpecRetry == InitRetry /\ [][RetryNext]_vars

InitBackOff == BackOffInit /\ RetryFixed /\ CBFixed /\ TimeoutFixed /\ KitFixed
SpecBackOff == InitBackOff /\ [][BackOffStep]_vars

InitCB == CBInit /\ RetryFixed /\ BackOffFixed /\ TimeoutFixed /\ KitFixed
SpecCB == InitCB /\ [][CBNext]_vars

InitTimeout == TimeoutInit /\ RetryFixed /\ BackOffFixed /\ CBFixed /\ KitFixed
SpecTimeout == InitTimeout /\ [][TimeoutNext]_vars

InitKit == KitInit /\ RetryFixed /\ BackOffFixed /\ CBFixed /\ TimeoutFixed
SpecKit == InitKit /\ [][KitNext]_vars

(***************************************************************************)
(* Properties of Retry.Execute (SpecRetry).                                *)
(***************************************************************************)
\* Number of times the unit of work was invoked by this Execute.
Invocations == Len(rCalls)

\* The retry policy in force accepts err: the supplied predicate returns true
\* for it or, with no predicate, it is not a cancellation.
Accepted(err) ==
    IF rPredicate.isNil THEN err \notin {Canceled, WrappedCanceled}
    ELSE err \in rPredicate.accepts

\* Invocations lo..hi all failed with an error the policy accepts.
AcceptedFailures(lo, hi) ==
    \A k \in lo..hi : rCalls[k] # Nil /\ Accepted(rCalls[k])

Min(a, b) == IF a <= b THEN a ELSE b

\* C1: when every invocation of the work fails with an error the retry
\* predicate accepts, Execute returns only after exactly MaxRetries+1
\* invocations, and what it returns is the (result, error) pair of the last
\* invocation itself, whose error is one of the work's own errors.
C1_ExhaustionReturnsLastFailure ==
    (rPc = "returned" /\ AcceptedFailures(1, Invocations))
        => /\ Invocations = rMaxRetries + 1
           /\ <<rRes, rErr>> = rLastPair
           /\ rErr = rCalls[Invocations]
           /\ rErr \in Errors

C1_Witness ==
    /\ rPc = "returned"
    /\ rMaxRetries = MaxMaxRetries
    /\ Invocations = rMaxRetries + 1
    /\ AcceptedFailures(1, Invocations)
    /\ rRes = "value"

\* C2: if invocations 1..k-1 fail with accepted errors and invocation k
\* succeeds (1 <= k <= MaxRetries+1), the k-th invocation is made (Execute
\* does not return while fewer than MaxRetries+1 invocations have all failed
\* with accepted errors), it is the last one (Execute has returned after
\* exactly k invocations), and Execute returns its result with a nil error.
C2_SuccessOnAttemptK ==
    /\ (Invocations >= 1 /\ rCalls[Invocations] = Nil
            /\ AcceptedFailures(1, Invocations - 1))
          => /\ rPc = "returned"
             /\ Invocations <= rMaxRetries + 1
             /\ rErr = Nil
             /\ rRes = rLastPair[1]
    /\ (Invocations >= 1 /\ Invocations < rMaxRetries + 1
            /\ AcceptedFailures(1, Invocations))
          => /\ rPc \in {"backoff", "call"}
             /\ rI = Invocations

C2_Witness ==
    /\ rPc = "returned"
    /\ rMaxRetries = MaxMaxRetries
    /\ Invocations = rMaxRetries + 1
    /\ AcceptedFailures(1, Invocations - 1)
    /\ rCalls[Invocations] = Nil
    /\ rRes = "value"
    /\ rErr = Nil

\* Number of invocations of this Execute that failed.
Failures == Cardinality({k \in 1..Invocations : rCalls[k] # Nil})
\* Number of invocations that failed with an error the policy accepts.
FailuresAccepted ==
    Cardinality({k \in 1..Invocations : rCalls[k] # Nil /\ Accepted(rCalls[k])})

\* C3 as stated: when Execute has returned, the number of invocations is
\* 1 + min(failures encountered, MaxRetries), and it never exceeds
\* MaxRetries+1.
C3_AsStated ==
    /\ Invocations <= rMaxRetries + 1
    /\ rPc = "returned" => Invocations = 1 + Min(Failures, rMaxRetries)

\* C3, amended: when Execute has returned, the number of invocations is
\* 1 + min(failures the retry predicate accepted, MaxRetries); it never
\* exceeds MaxRetries+1.
C3_AttemptCount ==
    /\ Invocations <= rMaxRetries + 1
    /\ rPc = "returned" => Invocations = 1 + Min(FailuresAccepted, rMaxRetries)

\* Execute returned on a failure the policy refused, with retries left.
C3_Witness ==
    /\ rPc = "returned"
    /\ rMaxRetries = MaxMaxRetries
    /\ Invocations = 2
    /\ rCalls[1] # Nil
    /\ rCalls[2] # Nil
    /\ ~Accepted(rCalls[2])

\* C4: with an ErrorPredicate supplied, a failed invocation makes Execute
\* return that error at once (the FailedWithoutRetry path) exactly when the
\* predicate returns false for it: an error the predicate refuses is always
\* the last invocation and the error returned; an error the predicate
\* accepts, a cancellation included, is followed by another invocation while
\* attempts remain; a refusal of the first failure gives exactly one
\* invocation.
C4_PredicateSoleDecision ==
    ~rPredicate.isNil =>
        /\ \A k \in 1..Invocations :
              (rCalls[k] # Nil /\ rCalls[k] \notin rPredicate.accepts)
                 => /\ k = Invocations
                    /\ rPc = "returned"
                    /\ rErr = rCalls[k]
                    /\ rOutcome = RetryFailedWithoutRetry
        /\ (Invocations >= 1 /\ rCalls[Invocations] \in rPredicate.accepts)
              => /\ rOutcome # RetryFailedWithoutRetry
                 /\ Invocations < rMaxRetries + 1 => rPc \in {"backoff", "call"}
        /\ (Invocations >= 1 /\ rCalls[1] # Nil /\ rCalls[1] \notin rPredicate.accepts)
              => Invocations = 1

\* A cancellation the predicate accepts was retried, and a later error the
\* predicate refuses ended the Execute.
C4_Witness ==
    /\ ~rPredicate.isNil
    /\ rMaxRetries = MaxMaxRetries
    /\ rPc = "returned"
    /\ Invocations = 2
    /\ rCalls[1] = Canceled
    /\ rCalls[2] = ErrTransient
    /\ rOutcome = RetryFailedWithoutRetry

\* C5: with no ErrorPredicate, an invocation whose error is or wraps
\* context.Canceled is the last one: Execute returns that error at once with
\* outcome FailedWithoutRetry; any other error is followed by another
\* invocation while attempts remain.
C5_DefaultNeverRetriesCancel ==
    rPredicate.isNil =>
        /\ \A k \in 1..Invocations :
              rCalls[k] \in {Canceled, WrappedCanceled}
                 => /\ k = Invocations
                    /\ rPc = "returned"
                    /\ rErr = rCalls[k]
                    /\ rOutcome = RetryFailedWithoutRetry
                    /\ rHasInstr => rRecords = <<(<<k, RetryFailedWithoutRetry>>)>>
        /\ (Invocations >= 1 /\ Invocations < rMaxRetries + 1
                /\ rCalls[Invocations] = ErrTransient)
              => rPc \in {"backoff", "call"}

\* A wrapped cancellation on the second invocation ended the Execute with
\* retries left.
C5_Witness ==
    /\ rPredicate.isNil
    /\ rMaxRetries = MaxMaxRetries
    /\ rPc = "returned"
    /\ rCalls = <<ErrTransient, WrappedCanceled>>
    /\ rErr = WrappedCanceled
    /\ rOutcome = RetryFailedWithoutRetry

(***************************************************************************)
(* Properties of BackOff.Next (SpecBackOff).                               *)
(***************************************************************************)
\* (d in seconds)^e seconds as a Duration, in whole Duration units.
PowSecondsAsSeconds(d, e) == (IntPow(d, e) * Second) \div IntPow(Second, e)

\* C6: an exponential backoff returns initial for i <= 1 and
\* initial + (base in seconds)^(i-1) seconds for i > 1; with initial = 1 s and
\* base = 2 s that is Next(1) = 1 s, Next(2) = 3 s, Next(3) = 5 s.
C6_ExponentialNext ==
    (boPc = "returned" /\ boB.kind = "exponential") =>
        /\ boT = IF boI <= 1 THEN boB.initial
                 ELSE boB.initial + PowSecondsAsSeconds(boB.exponential, boI - 1)
        /\ boB = NewExponentialBackoff(Second, 2 * Second) =>
              /\ boI = 1 => boT = Second
              /\ boI = 2 => boT = 3 * Second
              /\ boI = 3 => boT = 5 * Second

(***************************************************************************)
(* Properties of CircuitBreaker.Execute (SpecCB).                          *)
(*                                                                         *)
(* "waitOpen has elapsed" at time t means t > hOpenedAt + WaitOpen: at     *)
(* exactly hOpenedAt + WaitOpen it has not yet elapsed.                    *)
(***************************************************************************)
\* Caller p's Execute begins, is rejected, is admitted, completes.
Begins(p) == cPc[p] = "idle" /\ cPc'[p] # "idle"
IsRejected(p) == cPc[p] = "idle" /\ cPc'[p] = "returned"
IsAdmitted(p) == cPc[p] = "idle" /\ cPc'[p] = "running"
Completes(p) == cPc[p] = "running" /\ cPc'[p] = "returned"

WaitOpenElapsed == now > hOpenedAt + cbWaitOpen

\* Caller p's Execute returns the circuit-open error without invoking req.
RejectedOpen(p) ==
    /\ IsRejected(p)
    /\ cErr'[p] = ErrOpenState
    /\ ~cInvoked'[p]

\* f / (s + f) >= FailureRateThreshold, false when s + f = 0.
RateAtLeastThreshold(s, f) ==
    s + f > 0 /\ f * ThresholdDen >= cbThreshold * (s + f)

\* C7: while the breaker is Open and waitOpen has not elapsed since it
\* entered Open, every Execute returns the circuit-open error without
\* invoking the work and leaves the breaker Open; the breaker leaves Open
\* only to HalfOpen and only after waitOpen has elapsed.
C7_OpenRejects ==
    [][ /\ \A p \in Callers :
              (Begins(p) /\ cb.state = StateOpen /\ ~WaitOpenElapsed)
                 => RejectedOpen(p) /\ cb'.state = StateOpen
        /\ (cb.state = StateOpen /\ cb'.state # StateOpen)
              => cb'.state = StateHalfOpen /\ WaitOpenElapsed
      ]_vars

\* An Execute was rejected in the last minute of a two-minute wait.
C7_Witness ==
    /\ cb.state = StateOpen
    /\ cbWaitOpen = MaxWaitOpen
    /\ now = hOpenedAt + cbWaitOpen
    /\ cPc["c1"] = "returned"
    /\ cErr["c1"] = ErrOpenState
    /\ ~cInvoked["c1"]

\* Caller p's request fails, in the generation that admitted it, on a closed
\* breaker with threshold 1/2 that has counted one success and no failure.
FailsAfterOneSuccess(p) ==
    /\ 2 * cbThreshold = ThresholdDen
    /\ cb.state = StateClosed
    /\ ~(cb.expiry < now)
    /\ cGen[p] = cb.generation
    /\ cb.counts.TotalSuccesses = 1
    /\ cb.counts.TotalFailures = 0
    /\ Completes(p)
    /\ cErr'[p] = ErrWork

\* C8 as stated: with threshold 0.5, after 1 success and 1 failure the
\* breaker is still Closed (with counts 1 and 1), and it is the next call
\* that trips it.
C8_AsStated ==
    [][ /\ \A p \in Callers :
              FailsAfterOneSuccess(p)
                 => /\ cb'.state = StateClosed
                    /\ cb'.counts.TotalSuccesses = 1
                    /\ cb'.counts.TotalFailures = 1
        /\ \A p \in Callers :
              (2 * cbThreshold = ThresholdDen /\ cb.state = StateClosed
                  /\ ~(cb.expiry < now) /\ cGen[p] = cb.generation
                  /\ cb.counts.TotalSuccesses = 1 /\ cb.counts.TotalFailures = 1
                  /\ Completes(p))
                 => cb'.state = StateOpen
      ]_vars

\* C8, amended: with threshold 0.5, on a Closed breaker that has counted 1
\* success, the failed call that brings the rate to 0.5 itself trips the
\* breaker to Open; after that, calls are rejected with the circuit-open
\* error without invoking the work until waitOpen elapses.
C8_HalfRateTrips ==
    [][ /\ \A p \in Callers :
              FailsAfterOneSuccess(p)
                 => /\ cb'.state = StateOpen
                    /\ hOpenedAt' = now
                    /\ hTripCounts'.TotalSuccesses = 1
                    /\ hTripCounts'.TotalFailures = 1
        /\ \A p \in Callers :
              (2 * cbThreshold = ThresholdDen /\ Begins(p)
                  /\ cb.state = StateOpen /\ ~WaitOpenElapsed)
                 => RejectedOpen(p)
      ]_vars

\* The breaker was tripped at counts (1, 1) and has since rejected a call.
C8_Witness ==
    /\ 2 * cbThreshold = ThresholdDen
    /\ cb.state = StateOpen
    /\ hTripCounts.TotalSuccesses = 1
    /\ hTripCounts.TotalFailures = 1
    /\ ~WaitOpenElapsed
    /\ cPc["c2"] = "returned"
    /\ cErr["c2"] = ErrOpenState
    /\ ~cInvoked["c2"]

\* Caller p's request completes in the generation (the window of the
\* counters) that admitted it.
CompletesInItsGeneration(p) ==
    /\ Completes(p)
    /\ cGen[p] = cb.generation
    /\ ~(cb.expiry # ZeroTime /\ cb.expiry < now)

Total(counts) == counts.TotalSuccesses + counts.TotalFailures

ProbeCompletes(p) ==
    /\ Completes(p)
    /\ cb.state = StateHalfOpen
    /\ cGen[p] = cb.generation

\* What C10 says of an Execute by p, for the configurations where wait holds.
HalfOpenProbe(p, wait) ==
    /\ (wait /\ Begins(p) /\ WaitOpenElapsed
            /\ \/ cb.state = StateOpen
               \/ cb.state = StateHalfOpen /\ cb.counts.Requests = 0)
         => /\ IsAdmitted(p)
            /\ cInvoked'[p]
            /\ cb'.state = StateHalfOpen
    /\ ProbeCompletes(p)
         => IF cErr'[p] = Nil
            THEN /\ cb'.state = StateClosed
                 /\ cb'.counts.TotalSuccesses = 0
                 /\ cb'.counts.TotalFailures = 0
            ELSE /\ cb'.state = StateOpen
                 /\ hOpenedAt' = now
    /\ (Begins(p) /\ cb.state = StateOpen /\ ~WaitOpenElapsed)
         => IsRejected(p) /\ ~cInvoked'[p]

C11_RejectedNotCounted ==
    /\ [](Total(cb.counts) <= cb.counts.Requests)
    /\ [][ /\ \A p \in Callers : IsRejected(p) => cb'.counts = cb.counts
           /\ (\/ cb'.counts.TotalSuccesses > cb.counts.TotalSuccesses
               \/ cb'.counts.TotalFailures > cb.counts.TotalFailures)
                 => \E p \in Callers : Completes(p) /\ cInvoked[p]
         ]_vars

\* Both callers were rejected by an Open breaker whose counters are zero.
C11_Witness ==
    /\ cb.state = StateOpen
    /\ \A p \in Callers :
          cPc[p] = "returned" /\ cErr[p] = ErrOpenState /\ ~cInvoked[p]
    /\ Total(cb.counts) = 0
    /\ cb.counts.Requests = 0

\* Calls admitted in the current generation whose req has not returned.
InFlight == Cardinality({p \in Callers : cPc[p] = "running" /\ cGen[p] = cb.generation})

\* The completion of p's call moves exactly one counter, by one, or makes the
\* breaker change state.
CountedOnce(p) ==
    \/ cb'.state # cb.state
    \/ /\ cErr'[p] = Nil
       /\ cb'.counts.TotalSuccesses = cb.counts.TotalSuccesses + 1
       /\ cb'.counts.TotalFailures = cb.counts.TotalFailures
    \/ /\ cErr'[p] # Nil
       /\ cb'.counts.TotalFailures = cb.counts.TotalFailures + 1
       /\ cb'.counts.TotalSuccesses = cb.counts.TotalSuccesses

\* An Execute that begins is decided by the state the breaker has once the
\* step is taken, never by a state it has left.
DecidedByCurrentState(p) ==
    Begins(p) =>
        /\ cb'.state = StateOpen => RejectedOpen(p)
        /\ cb'.state = StateClosed => IsAdmitted(p) /\ cInvoked'[p]
        /\ (cb'.state = StateHalfOpen /\ IsRejected(p))
              => /\ cErr'[p] = ErrTooManyRequests
                 /\ \E q \in Callers \ {p} :
                       cPc[q] = "running" /\ cGen[q] = cb'.generation
        /\ cb.state = StateClosed => cb'.state = StateClosed

FailsInClosed(p) == Completes(p) /\ cb.state = StateClosed /\ cErr'[p] # Nil

Edges ==
    { <<StateClosed, StateOpen>>, <<StateOpen, StateHalfOpen>>,
      <<StateHalfOpen, StateClosed>>, <<StateHalfOpen, StateOpen>> }

\* C20: the breaker starts Closed and every step that changes its state
\* goes along Closed->Open, Open->HalfOpen, HalfOpen->Closed or
\* HalfOpen->Open (never Closed->HalfOpen, never Open->Closed); req is
\* invoked only by an Execute that is admitted, which leaves the breaker
\* Closed or HalfOpen, and never by one that is rejected.
C20_StateDiagram ==
    /\ cb.state = StateClosed
    /\ [][ /\ cb'.state # cb.state => <<cb.state, cb'.state>> \in Edges
           /\ \A p \in Callers :
                 /\ (cInvoked'[p] /\ ~cInvoked[p])
                       => /\ IsAdmitted(p)
                          /\ cb'.state \in {StateClosed, StateHalfOpen}
                 /\ IsRejected(p) => ~cInvoked'[p] /\ cb'.state # StateClosed
         ]_vars

\* With waitOpen = 1 the breaker tripped at 0, was probed and reopened at 2,
\* was probed again by c2 at 4 and closed: six generations, every edge taken.
C20_Witness ==
    /\ cbWaitOpen = 1
    /\ cb.state = StateClosed
    /\ cb.generation = 6
    /\ hOpenedAt = 2
    /\ now = 4
    /\ cPc["c2"] = "returned"
    /\ cErr["c2"] = Nil
    /\ cInvoked["c2"]
    /\ cPc["c1"] = "returned"
    /\ cErr["c1"] = ErrOpenState

\* C16: with instrumentation present, an Execute that has returned has made
\* exactly one RecordRetryCall and one that is still running has made none;
\* the attempts reported equal the number of invocations of the work;
\* Success is reported when the last invocation succeeded and
\* FailedWithoutRetry when its error was refused, both with attempts =
\* attempt index + 1; FailedWithRetry is reported, with attempts =
\* MaxRetries + 1, exactly when all MaxRetries+1 invocations failed with
\* errors the policy accepts.
C16_OneOutcomeReported ==
    rHasInstr =>
        /\ rPc # "returned" => rRecords = <<>>
        /\ rPc = "returned" =>
              /\ Len(rRecords) = 1
              /\ rRecords[1][1] = Invocations
              /\ rRecords[1][2] = rOutcome
              /\ rOutcome = RetrySuccess
                    <=> rCalls[Invocations] = Nil
              /\ rOutcome = RetryFailedWithoutRetry
                    <=> rCalls[Invocations] # Nil /\ ~Accepted(rCalls[Invocations])
              /\ rOutcome \in {RetrySuccess, RetryFailedWithoutRetry}
                    => rRecords[1][1] = rI + 1
              /\ rOutcome = RetryFailedWithRetry
                    <=> /\ Invocations = rMaxRetries + 1
                        /\ AcceptedFailures(1, Invocations)
              /\ rOutcome = RetryFailedWithRetry
                    => rRecords[1][1] = rMaxRetries + 1

\* Success reported by the last allowed invocation, MaxRetries failures
\* after the first: attempts = MaxRetries + 1.
C16_Witness ==
    /\ rHasInstr
    /\ rPc = "returned"
    /\ rMaxRetries = MaxMaxRetries
    /\ Invocations = rMaxRetries + 1
    /\ rRecords = <<<<rMaxRetries + 1, RetrySuccess>>>>

\* No wait before the first invocation; the k-th wait of an Execute comes
\* after the k-th invocation and lasts backOff.Next(k); without a BackOff
\* there is no wait.
WaitsAreBackOffNext ==
    /\ Invocations = 0 => rWaits = <<>>
    /\ Len(rWaits) <= Invocations
    /\ rBackOff = NoBackOff => rWaits = <<>>
    /\ rBackOff # NoBackOff
          => /\ \A k \in 1..Len(rWaits) : rWaits[k] = BackOffNext(rBackOff, k)
             /\ rPc = "call" => Len(rWaits) = rI

\* The step that ends a backoff wait during which ctx was cancelled returns
\* a cancellation error and does not invoke the work again.
CancelledWaitReturns ==
    (rPc = "backoff" /\ rCtxCancelled /\ rPc' # "backoff")
        => /\ rPc' = "returned"
           /\ IsCanceled(rErr')
           /\ rCalls' = rCalls

\* C18: if ctx is cancelled while Execute is in a backoff wait, the wait
\* returns early and Execute returns a cancellation error without invoking
\* the work again; there is no wait before the first attempt, and the wait
\* before retry i is backOff.Next(i).
C18_BackoffCancellable ==
    /\ [][CancelledWaitReturns]_vars
    /\ []WaitsAreBackOffNext

\* What the code does: the wait before retry i lasts backOff.Next(i) whether
\* or not ctx is cancelled, and the work is then invoked again.
C18_WaitIgnoresCtx ==
    /\ [][rPc = "backoff" /\ rPc' # "backoff"
            => /\ rPc' = "call"
               /\ rCalls' = rCalls
               /\ rWaits' = backOffWaits(rWaits, rI)]_vars
    /\ []WaitsAreBackOffNext

\* ctx was cancelled, Execute nevertheless waited out backOff.Next(1) and
\* invoked the work a second time.
C18_Witness ==
    /\ rCtxCancelled
    /\ rBackOff # NoBackOff
    /\ rWaits = <<BackOffNext(rBackOff, 1)>>
    /\ Invocations = 2
    /\ rCalls[1] # Nil

\* Number of Logger calls of the latest step that are equal to e.
Emitted(logs, e) == Cardinality({k \in 1..Len(logs) : logs[k] = e})

\* C17: with a logger, every step that changes the breaker's state emits
\* exactly one state-transition event, naming the policy, the from-state and
\* the to-state; it emits the circuit-open alert, once, exactly when the
\* change is Closed->Open (not HalfOpen->Open) and the circuit-closed event,
\* once, exactly when the change is into Closed, and nothing else; a step
\* that does not change the state emits nothing; with no logger nothing is
\* ever emitted, and the probe of a HalfOpen breaker still makes its
\* transition.
C17_TransitionReporting ==
    [][ /\ (cbHasLogger /\ cb'.state # cb.state)
              => /\ Emitted(cbLogs', TransitionEvent(cb.state, cb'.state)) = 1
                 /\ Emitted(cbLogs', OpenEvent)
                       = (IF cb.state = StateClosed /\ cb'.state = StateOpen
                          THEN 1 ELSE 0)
                 /\ Emitted(cbLogs', ClosedEvent)
                       = (IF cb'.state = StateClosed THEN 1 ELSE 0)
                 /\ Len(cbLogs') = 1 + Emitted(cbLogs', OpenEvent)
                                     + Emitted(cbLogs', ClosedEvent)
        /\ cb'.state = cb.state => cbLogs' = <<>>
        /\ ~cbHasLogger => cbLogs' = <<>>
        /\ \A p \in Callers :
              (~cbHasLogger /\ ProbeCompletes(p)) => cb'.state # cb.state
      ]_vars

\* A failed probe has just reopened the breaker: one state-transition event,
\* HalfOpen to Open, and no alert.
C17_Witness ==
    /\ cbHasLogger
    /\ cb.state = StateOpen
    /\ cbLogs = <<TransitionEvent(StateHalfOpen, StateOpen)>>

(***************************************************************************)
(* Properties of the ResilienceKit accessors (SpecKit).                    *)
(***************************************************************************)
\* C13: for each accessor of one kit, under any interleaving of concurrent
\* and repeated calls the constructor runs at most once, it has run exactly
\* once by the time any call returns, and every call returns the executor
\* it built, the one held in the kit's field: never nil, and the same for
\* all callers.
C13_ConstructedOnce ==
    /\ \A a \in Accessors :
          /\ kBuilt[a] <= 1
          /\ kDone[a] => kBuilt[a] = 1 /\ kField[a] # NilExecutor
    /\ \A g \in Goroutines :
          kPc[g] = "returned"
             => /\ kBuilt[kAcc[g]] = 1
                /\ kRet[g] # NilExecutor
                /\ kRet[g] = kField[kAcc[g]]
    /\ \A g, h \in Goroutines :
          (kPc[g] = "returned" /\ kPc[h] = "returned" /\ kAcc[g] = kAcc[h])
             => kRet[g] = kRet[h]

\* Both goroutines called Timeout() before it was built (both took the slow
\* path of Do); one executor was built and both got it.
C13_Witness ==
    /\ \A g \in Goroutines :
          /\ kPc[g] = "returned"
          /\ kAcc[g] = "Timeout"
          /\ kPath[g] = "slow"
          /\ kRet[g] = kField["Timeout"]
    /\ kBuilt["Timeout"] = 1

(***************************************************************************)
(* Properties of Timeout.Execute (SpecTimeout).                            *)
(***************************************************************************)
\* C14: an Execute that has returned has run exactly one of the three
\* record functions, chosen by the error req returned and by nothing else:
\* nil gives Success, an error that is context.DeadlineExceeded (errors.Is)
\* gives TimedOut, any other error gives Failed; with instrumentation it
\* has made exactly one RecordTimeoutCall, with that outcome, and an Execute
\* still running has made none; what it returns is the (result, error)
\* pair of req, unmodified, whatever the outcome.
C14_OneOutcomeByError ==
    /\ tPc = "returned" =>
          /\ <<tRes, tErr>> = tWorkPair
          /\ tOutcome \in {TimeoutSuccess, TimeoutTimedOut, TimeoutFailed}
          /\ tOutcome = TimeoutSuccess <=> tErr = Nil
          /\ tOutcome = TimeoutTimedOut
                <=> tErr \in {DeadlineExceeded, WrappedDeadlineExceeded}
          /\ tOutcome = TimeoutFailed <=> tErr \in {ErrWork, Canceled}
          /\ tRecords = IF tHasInstr THEN <<tOutcome>> ELSE <<>>
    /\ tPc # "returned" => tOutcome = "none" /\ tRecords = <<>>

\* req returned a value together with a deadline error before the deadline
\* of Execute's own context: TimedOut, and the pair comes back as it is.
C14_Witness ==
    /\ tPc = "returned"
    /\ tHasInstr
    /\ tElapsed < tTimeLimit
    /\ tWorkPair = <<"value", WrappedDeadlineExceeded>>
    /\ tRes = "value"
    /\ tErr = WrappedDeadlineExceeded
    /\ tRecords = <<TimeoutTimedOut>>

\* C15: when the work has run longer than TimeLimit, ignoring the
\* cancellation of its context, the Execute that returns is classified
\* TimedOut and returns a deadline-exceeded error, the error of its expired
\* context.
C15_OverrunIsTimedOut ==
    (tPc = "returned" /\ tElapsed > tTimeLimit)
        => /\ tOutcome = TimeoutTimedOut
           /\ IsDeadlineExceeded(tErr)
           /\ tErr = CtxErr

\* TimeLimit 10 ms, the work ran 50 ms and returned a value and no error:
\* Execute returned them, classified Success.
C15_Witness ==
    /\ tPc = "returned"
    /\ tTimeLimit = 1
    /\ tElapsed = 5
    /\ CtxErr = DeadlineExceeded
    /\ tRes = "value"
    /\ tErr = Nil
    /\ tOutcome = TimeoutSuccess

=============================================================================
